---- MODULE Spec2Model ----
(***************************************************************************)
(* A model of the wxnet tools:                                             *)
(*   - collate_measurements.py: calibrate the raw PurpleAir samples, sort  *)
(*     them, write the csv, build one TrainingSet per measurement, keep    *)
(*     the valid ones, shuffle, split into training and validation data;   *)
(*   - purpleair_scraper.py: the paging loop that builds the raw feed.     *)
(*                                                                         *)
(* Time is counted in ticks, TicksPerSecond ticks to the second (a Python  *)
(* datetime has 10^6).  A raw sample is the JSON array                     *)
(* <<epoch timestamp, ...>>; a Measurement's timestamp is the naive local  *)
(* wall-clock time datetime.fromtimestamp makes of it in the host's zone.  *)
(* The samples are the arrays                                              *)
(* <<timestamp, humidity, temperature F, pressure>> with integer readings. *)
(* A calibrated temperature is the exact fraction (f - 32 - 8) / 1.8 =     *)
(* (f - 40) * 5 / 9, kept as its numerator over CelsiusDen.                *)
(* train_split is the fraction numerator / SplitDen.                       *)
(***************************************************************************)
EXTENDS Integers, Sequences, FiniteSets, TLC

VARIABLES
  pc,                \* where main of collate_measurements.py stands
  flags,             \* the parsed absl flags
  tz,                \* the time zone of the host: the change of its UTC offset
  data,              \* the 'data' array of the input file
  cleaned_data,      \* main's cleaned_data
  order,             \* order[k]: index in data of the sample behind cleaned_data[k]
  i,                 \* measurements visited by the loop of _collect_training_data
  t,                 \* <<the TrainingSet built last by that loop>>, or <<>>
  kept,              \* kept[k]: index in cleaned_data of the anchor of the k-th retained example
  training_data,     \* training_set of the collector, then main's training_data
  validation_data,   \* main's validation_data
  files,             \* the output files opened for writing so far
  s_pc,              \* where main of purpleair_scraper.py stands
  start_timestamp,   \* scraper: --start_timestamp
  current_timestamp, \* scraper: start of the next window
  end_timestamp,     \* scraper: --end_timestamp
  response,          \* scraper: "none" before a request, else how the last one ended
  all_data,          \* scraper: the combined reply, a JSON object
  requests,          \* scraper: the window starts requested, in order
  replies,           \* scraper: the replies received, in order
  outfile            \* scraper: <<>> while unwritten, else <<what was written>>

pvars == <<pc, flags, tz, data, cleaned_data, order, i, t, kept, training_data,
           validation_data, files>>
svars == <<s_pc, start_timestamp, current_timestamp, end_timestamp, response, all_data,
           requests, replies, outfile>>
vars == <<pvars, svars>>

----------------------------------------------------------------------------
(* Bounds of the model *)
MaxLen == 4
TicksPerSecond == 2
SplitDen == 4
MaxWeeks == 9
MaxPage == 2

(* Program constants *)
SecondsPerDay == 86400
EpsilonSeconds == 1
CelsiusDen == 9
PageWeeks == 4

Day == SecondsPerDay * TicksPerSecond
epsilon == EpsilonSeconds * TicksPerSecond

Range(s) == {s[k] : k \in 1..Len(s)}

\* the JSON object {}
EmptyDict == [keys |-> {}, data |-> <<>>]

----------------------------------------------------------------------------
(* Calibration *)

_fahrenheit_to_celsius_twice(f) == (f - 32 - 8 - 8) * 5

\* (f - 32.0 - 8.0) / 1.8, as a numerator over CelsiusDen
_fahrenheit_to_celsius(f) == (f - 32 - 8) * 5

_calibrate_humidity(h) == h + 4

Hour == Day \div 24

\* The UTC offset of the host's zone at epoch time x, less its offset at epoch 0:
\* constant in a zone without daylight saving time (shift 0); in a zone with it the
\* clocks go forward (shift Hour) or back (shift -Hour) at the epoch time tz.at.
UtcOffset(x) == IF x >= tz.at THEN tz.shift ELSE 0

\* datetime.datetime.fromtimestamp(x): the naive local wall-clock time of epoch x
fromtimestamp(x) == x + UtcOffset(x)

\* Measurement(timestamp=fromtimestamp(d[0]), humidity=..(d[1]), temperature=..(d[2]),
\* pressure=d[3])
Measurement(d) ==
  [timestamp |-> fromtimestamp(d[1]),
   humidity |-> _calibrate_humidity(d[2]),
   temperature |-> _fahrenheit_to_celsius(d[3]),
   pressure |-> d[4]]

get_history_start(m) == m.timestamp - flags.history_length * Day

get_prediction_end(m) == m.timestamp + flags.prediction_length * Day

----------------------------------------------------------------------------
(* sorted(cleaned_data, key=lambda d: d.timestamp): a stable sort.  The result
   is the sequence of positions of the input, in output order. *)

InsertAt(s, p, x) == SubSeq(s, 1, p) \o <<x>> \o SubSeq(s, p + 1, Len(s))

RECURSIVE SortedOrderUnstableUpTo(_, _)
SortedOrderUnstableUpTo(seq, n) ==
  IF n = 0 THEN <<>>
  ELSE LET s == SortedOrderUnstableUpTo(seq, n - 1)
           p == Cardinality({j \in 1..Len(s) : seq[s[j]].timestamp < seq[n].timestamp})
       IN  InsertAt(s, p, n)

SortedOrder_unstable(seq) == SortedOrderUnstableUpTo(seq, Len(seq))

RECURSIVE SortedOrderUpTo(_, _)
SortedOrderUpTo(seq, n) ==
  IF n = 0 THEN <<>>
  ELSE LET s == SortedOrderUpTo(seq, n - 1)
           p == Cardinality({j \in 1..Len(s) : seq[s[j]].timestamp <= seq[n].timestamp})
       IN  InsertAt(s, p, n)

SortedOrder(seq) == SortedOrderUpTo(seq, Len(seq))

----------------------------------------------------------------------------
(* The window builder and the validity check *)

_get_time_bracketed_entries_open_start(start, end, d) ==
  SelectSeq(d, LAMBDA e : e.timestamp > start /\ e.timestamp <= end)

_get_time_bracketed_entries(start, end, d) ==
  SelectSeq(d, LAMBDA e : e.timestamp >= start /\ e.timestamp <= end)

TrainingSet(measurement, d) ==
  [actual |-> measurement,
   history |-> _get_time_bracketed_entries(
                 get_history_start(measurement), measurement.timestamp - epsilon, d),
   future |-> _get_time_bracketed_entries(
                 measurement.timestamp + epsilon, get_prediction_end(measurement), d)]

is_valid_history_only(ts) ==
  Len(ts.history) = flags.scraper_resolution * flags.history_length

is_valid_future_only(ts) ==
  Len(ts.future) = flags.scraper_resolution * flags.prediction_length

is_valid(ts) ==
  LET expected_history == flags.scraper_resolution * flags.history_length
      expected_prediction == flags.scraper_resolution * flags.prediction_length
  IN  Len(ts.history) = expected_history /\ Len(ts.future) = expected_prediction

----------------------------------------------------------------------------
(* The splitter *)

\* int(x) of the float a / b, b > 0: truncation towards zero
IntTrunc(a, b) == IF a >= 0 THEN a \div b ELSE -((-a) \div b)

training_idx == IntTrunc(Len(training_data) * flags.train_split, SplitDen)

\* a slice bound as Python normalises it: negative counts from the end, then clamped
SliceIndex(n, k) ==
  LET j == IF k < 0 THEN k + n ELSE k
  IN  IF j < 0 THEN 0 ELSE IF j > n THEN n ELSE j

SliceFrom(s, k) == SubSeq(s, SliceIndex(Len(s), k) + 1, Len(s))

SliceTo(s, k) == SubSeq(s, 1, SliceIndex(Len(s), k))

----------------------------------------------------------------------------
(* The inputs *)

TimeGrid == {0, Day \div 2, Day - 1, Day, 2 * Day, 3 * Day}

Readings == <<<<50, 80, 1000>>, <<46, 32, 1013>>>>

Sample(ts, r) == <<ts, Readings[r][1], Readings[r][2], Readings[r][3]>>

\* the same readings throughout, or the two readings in turn
Series(times, pattern) ==
  [k \in 1..Len(times) |-> Sample(times[k], IF pattern = 1 THEN 1 ELSE 1 + (k % 2))]

TimeSeqs == UNION {[1..n -> TimeGrid] : n \in 0..MaxLen}

\* ten samples, one day apart
ScenarioA == [k \in 1..10 |-> Sample((k - 1) * Day, 1)]

ScenarioAReversed == [k \in 1..10 |-> ScenarioA[11 - k]]

Flags(h, p, r, s) ==
  [history_length |-> h, prediction_length |-> p, scraper_resolution |-> r,
   train_split |-> s]

FlagSet ==
  {Flags(1, 1, 1, SplitDen \div 2), Flags(1, 1, 1, SplitDen - 1),
   Flags(1, 1, 1, SplitDen + 1), Flags(1, 1, 1, -1),
   Flags(1, 1, 2, SplitDen \div 2), Flags(2, 2, 1, SplitDen - 1),
   Flags(-1, 1, 1, SplitDen \div 2), Flags(1, -1, 1, SplitDen \div 2)}

ScenarioFlagSet == {Flags(2, 2, 1, SplitDen \div 2), Flags(2, 2, 1, SplitDen - 1)}

\* the flags tried on a host whose zone changes its offset
DstFlagSet == {Flags(1, 1, 1, SplitDen \div 2)}

FixedZone == [shift |-> 0, at |-> 0]

DstZones == {[shift |-> sh, at |-> a] : sh \in {Hour, -Hour}, a \in {Day, 2 * Day}}

----------------------------------------------------------------------------
(* collate_measurements.py *)

ScraperIdle ==
  /\ s_pc = "idle"
  /\ start_timestamp = 0
  /\ current_timestamp = 0
  /\ end_timestamp = 0
  /\ response = "none"
  /\ all_data = EmptyDict
  /\ requests = <<>>
  /\ replies = <<>>
  /\ outfile = <<>>

Init ==
  /\ pc = "start"
  /\ \/ /\ flags \in FlagSet
        /\ tz = FixedZone
        /\ \E times \in TimeSeqs, pattern \in 1..2 : data = Series(times, pattern)
     \/ /\ flags \in DstFlagSet
        /\ tz \in DstZones
        /\ \E times \in TimeSeqs, pattern \in 1..2 : data = Series(times, pattern)
     \/ /\ flags \in ScenarioFlagSet
        /\ tz \in DstZones \cup {FixedZone}
        /\ data \in {ScenarioA, ScenarioAReversed}
  /\ cleaned_data = <<>>
  /\ order = <<>>
  /\ i = 0
  /\ t = <<>>
  /\ kept = <<>>
  /\ training_data = <<>>
  /\ validation_data = <<>>
  /\ files = {}
  /\ ScraperIdle

\* app.run parses the flags (none has a bound or a validator) and calls main, which
\* checks argv and the input file and reads it
Start ==
  /\ pc = "start"
  /\ \E input_ok \in BOOLEAN :
       pc' = IF input_ok THEN "calibrate" ELSE "input_error"
  /\ UNCHANGED <<flags, tz, data, cleaned_data, order, i, t, kept, training_data,
                 validation_data, files, svars>>

Calibrate ==
  /\ pc = "calibrate"
  /\ cleaned_data' = [k \in 1..Len(data) |-> Measurement(data[k])]
  /\ order' = [k \in 1..Len(data) |-> k]
  /\ pc' = "sort"
  /\ UNCHANGED <<flags, tz, data, i, t, kept, training_data, validation_data, files, svars>>

Sort ==
  /\ pc = "sort"
  /\ LET o == SortedOrder(cleaned_data)
     IN  /\ order' = o
         /\ cleaned_data' = [k \in 1..Len(o) |-> cleaned_data[o[k]]]
  /\ pc' = "write_csv"
  /\ UNCHANGED <<flags, tz, data, i, t, kept, training_data, validation_data, files, svars>>

\* open(outfile, 'w') creates the file; data[0] raises IndexError on an empty list
WriteCsv ==
  /\ pc = "write_csv"
  /\ files' = files \cup {"csv"}
  /\ pc' = IF Len(cleaned_data) = 0 THEN "IndexError" ELSE "collect"
  /\ UNCHANGED <<flags, tz, data, cleaned_data, order, i, t, kept, training_data,
                 validation_data, svars>>

\* one iteration of the loop of _collect_training_data
CollectStep ==
  /\ pc = "collect"
  /\ i < Len(cleaned_data)
  /\ LET ts == TrainingSet(cleaned_data[i + 1], cleaned_data)
     IN  /\ t' = <<ts>>
         /\ IF is_valid(ts)
            THEN /\ training_data' = Append(training_data, ts)
                 /\ kept' = Append(kept, i + 1)
            ELSE UNCHANGED <<training_data, kept>>
  /\ i' = i + 1
  /\ UNCHANGED <<pc, flags, tz, data, cleaned_data, order, validation_data, files, svars>>

CollectReturn ==
  /\ pc = "collect"
  /\ i = Len(cleaned_data)
  /\ pc' = "shuffle"
  /\ UNCHANGED <<flags, tz, data, cleaned_data, order, i, t, kept, training_data,
                 validation_data, files, svars>>

\* random.shuffle(training_data)
Shuffle ==
  /\ pc = "shuffle"
  /\ \E p \in Permutations(1..Len(training_data)) :
       /\ training_data' = [k \in 1..Len(training_data) |-> training_data[p[k]]]
       /\ kept' = [k \in 1..Len(kept) |-> kept[p[k]]]
  /\ pc' = "split"
  /\ UNCHANGED <<flags, tz, data, cleaned_data, order, i, t, validation_data, files, svars>>

Split ==
  /\ pc = "split"
  /\ validation_data' = SliceFrom(training_data, training_idx)
  /\ training_data' = SliceTo(training_data, training_idx)
  /\ pc' = "write_json"
  /\ UNCHANGED <<flags, tz, data, cleaned_data, order, i, t, kept, files, svars>>

WriteJson ==
  /\ pc = "write_json"
  /\ files' = files \cup {"validation", "training"}
  /\ pc' = "done"
  /\ UNCHANGED <<flags, tz, data, cleaned_data, order, i, t, kept, training_data,
                 validation_data, svars>>

Next ==
  \/ Start
  \/ Calibrate
  \/ Sort
  \/ WriteCsv
  \/ CollectStep
  \/ CollectReturn
  \/ Shuffle
  \/ Split
  \/ WriteJson

Spec == Init /\ [][Next]_vars

----------------------------------------------------------------------------
(* purpleair_scraper.py.  Timestamps are counted in weeks.  A reply is the decoded
   JSON object of a page: the set of its keys and, when 'data' is one of them, its
   data array.  The object without keys is the empty dict. *)

PageData(w, n) == [j \in 1..n |-> <<w, j>>]

\* what json.loads(response.text) may give for the window that starts at w
ReplySet(w) ==
  {[keys |-> ks, data |-> d] :
     ks \in SUBSET {"data", "end_timestamp", "message"},
     d \in {PageData(w, n) : n \in 0..MaxPage}}
    \ {r \in [keys : SUBSET {"data", "end_timestamp", "message"},
              data : {PageData(w, n) : n \in 1..MaxPage}] : "data" \notin r.keys}

\* data["end_timestamp"] of a reply that follows a non-empty all_data, read outside
\* the try
RaisesKeyError(all, reply) == all.keys # {} /\ "end_timestamp" \notin reply.keys

\* if not all_data: all_data = data; else all_data["data"].extend(data["data"]),
\* a KeyError of either 'data' lookup being logged and dropped
MergeReply(all, reply) ==
  IF all.keys = {} THEN reply
  ELSE IF "data" \in all.keys /\ "data" \in reply.keys
       THEN [all EXCEPT !.data = all.data \o reply.data]
       ELSE all

PipelineIdle ==
  /\ pc = "idle"
  /\ flags = Flags(1, 1, 1, SplitDen \div 2)
  /\ tz = FixedZone
  /\ data = <<>>
  /\ cleaned_data = <<>>
  /\ order = <<>>
  /\ i = 0
  /\ t = <<>>
  /\ kept = <<>>
  /\ training_data = <<>>
  /\ validation_data = <<>>
  /\ files = {}

ScraperInit ==
  /\ s_pc = "check_key"
  /\ start_timestamp \in 0..1
  /\ current_timestamp = start_timestamp
  /\ end_timestamp \in 0..MaxWeeks
  /\ response = "none"
  /\ all_data = EmptyDict
  /\ requests = <<>>
  /\ replies = <<>>
  /\ outfile = <<>>
  /\ PipelineIdle

\* the request that checks the API key; main returns when it fails
CheckKey ==
  /\ s_pc = "check_key"
  /\ \E ok \in BOOLEAN : s_pc' = IF ok THEN "loop" ELSE "done"
  /\ UNCHANGED <<start_timestamp, current_timestamp, end_timestamp, response, all_data,
                 requests, replies, outfile, pvars>>

\* one iteration of the paging loop whose request succeeds (the sleep included)
Page ==
  /\ s_pc = "loop"
  /\ current_timestamp < end_timestamp
  /\ requests' = Append(requests, current_timestamp)
  /\ current_timestamp' = current_timestamp + PageWeeks
  /\ response' = "ok"
  /\ \E reply \in ReplySet(current_timestamp) :
       /\ ~RaisesKeyError(all_data, reply)
       /\ replies' = Append(replies, reply)
       /\ all_data' = MergeReply(all_data, reply)
  /\ UNCHANGED <<s_pc, start_timestamp, end_timestamp, outfile, pvars>>

\* one iteration whose request succeeds with a reply that has no 'end_timestamp'
\* while all_data is not empty: the KeyError leaves main
PageKeyError ==
  /\ s_pc = "loop"
  /\ current_timestamp < end_timestamp
  /\ requests' = Append(requests, current_timestamp)
  /\ current_timestamp' = current_timestamp + PageWeeks
  /\ response' = "ok"
  /\ \E reply \in ReplySet(current_timestamp) :
       /\ RaisesKeyError(all_data, reply)
       /\ replies' = Append(replies, reply)
  /\ s_pc' = "KeyError"
  /\ UNCHANGED <<start_timestamp, end_timestamp, all_data, outfile, pvars>>

\* one iteration whose request succeeds with a body that is no JSON: json.loads raises
PageNotJson ==
  /\ s_pc = "loop"
  /\ current_timestamp < end_timestamp
  /\ requests' = Append(requests, current_timestamp)
  /\ current_timestamp' = current_timestamp + PageWeeks
  /\ response' = "ok"
  /\ s_pc' = "JSONDecodeError"
  /\ UNCHANGED <<start_timestamp, end_timestamp, all_data, replies, outfile, pvars>>

\* one iteration whose request fails: response.raise_for_status() raises HTTPError
PageFails ==
  /\ s_pc = "loop"
  /\ current_timestamp < end_timestamp
  /\ requests' = Append(requests, current_timestamp)
  /\ current_timestamp' = current_timestamp + PageWeeks
  /\ response' = "failed"
  /\ s_pc' = "HTTPError"
  /\ UNCHANGED <<start_timestamp, end_timestamp, all_data, replies, outfile, pvars>>

WriteFeed ==
  /\ s_pc = "loop"
  /\ current_timestamp >= end_timestamp
  /\ outfile' = <<all_data>>
  /\ s_pc' = "done"
  /\ UNCHANGED <<start_timestamp, current_timestamp, end_timestamp, response, all_data,
                 requests, replies, pvars>>

ScraperNext ==
  \/ CheckKey
  \/ Page
  \/ PageKeyError
  \/ PageNotJson
  \/ PageFails
  \/ WriteFeed

ScraperSpec == ScraperInit /\ [][ScraperNext]_vars

----------------------------------------------------------------------------
(* Properties of collate_measurements.py, checked under Spec *)

Abs(x) == IF x < 0 THEN -x ELSE x

Collected == pc \in {"shuffle", "split", "write_json", "done"}

Examples == Range(training_data) \cup Range(validation_data)

\* the example of the k-th measurement of the series, and whether its two windows
\* hold exactly the expected numbers of entries
ExampleOf(k) == TrainingSet(cleaned_data[k], cleaned_data)

CountsMatch(k) ==
  /\ Len(ExampleOf(k).history) = flags.scraper_resolution * flags.history_length
  /\ Len(ExampleOf(k).future) = flags.scraper_resolution * flags.prediction_length

RECURSIVE ExpectedExamples(_)
ExpectedExamples(n) ==
  IF n = 0 THEN <<>>
  ELSE IF CountsMatch(n) THEN Append(ExpectedExamples(n - 1), ExampleOf(n))
       ELSE ExpectedExamples(n - 1)

SplitInRange == 0 < flags.train_split /\ flags.train_split < SplitDen

FlagsInvalid ==
  \/ flags.train_split <= 0
  \/ flags.train_split >= SplitDen
  \/ flags.history_length < 0
  \/ flags.prediction_length < 0

\* C1: after the shuffle and the cut, len(train) + len(validation) is the number of
\* valid examples, no example is in both sets, and every valid example is in one of
\* them, for every train_split in (0,1), also when two measurements are equal in
\* every field.
C1_SplitIsDisjointPartition ==
  (pc \in {"write_json", "done"} /\ SplitInRange) =>
     /\ Len(training_data) + Len(validation_data)
          = Len(ExpectedExamples(Len(cleaned_data)))
     /\ Range(training_data) \cap Range(validation_data) = {}
     /\ Examples = Range(ExpectedExamples(Len(cleaned_data)))

\* C2: the example built for measurement m has as history exactly the series entries
\* with m.timestamp - history_length <= timestamp < m.timestamp and as future exactly
\* those with m.timestamp < timestamp <= m.timestamp + prediction_length, in series
\* order.  (Stated for flags in their ranges.)
C2_WindowsAreHalfOpenIntervals ==
  (t # <<>> /\ ~FlagsInvalid) =>
    LET m == t[1].actual
    IN  /\ t[1].history
             = SelectSeq(cleaned_data,
                 LAMBDA e : /\ m.timestamp - flags.history_length * Day <= e.timestamp
                            /\ e.timestamp < m.timestamp)
        /\ t[1].future
             = SelectSeq(cleaned_data,
                 LAMBDA e : /\ m.timestamp < e.timestamp
                            /\ e.timestamp <= m.timestamp + flags.prediction_length * Day)

\* C3: a run on an empty data array raises no error and ends with no example, an
\* empty training set and an empty validation set.  (Stated for flags in their ranges.)
C3_EmptyInputCompletes ==
  (Len(data) = 0 /\ ~FlagsInvalid) =>
    /\ pc # "IndexError"
    /\ training_data = <<>>
    /\ validation_data = <<>>

\* C4: the collector visits every measurement and retains the example of a
\* measurement iff its history holds scraper_resolution * history_length entries and
\* its future scraper_resolution * prediction_length; a dropped example does not stop
\* the later ones from being built and retained.
C4_RetainedIffCountsMatch ==
  /\ pc = "collect" => training_data = ExpectedExamples(i)
  /\ pc = "shuffle" =>
       /\ i = Len(cleaned_data)
       /\ training_data = ExpectedExamples(Len(cleaned_data))

C4_Witness ==
  /\ pc = "shuffle"
  /\ \E a, b \in 1..Len(cleaned_data) :
       /\ a < b
       /\ ~CountsMatch(a)
       /\ CountsMatch(b)
       /\ ExampleOf(b) \in Range(training_data)
       /\ ExampleOf(a) \notin Range(training_data)

WindowsPositive ==
  /\ flags.history_length > 0
  /\ flags.prediction_length > 0
  /\ flags.scraper_resolution > 0

\* every retained example is anchored at least history_length after the first
\* timestamp of the series and at least prediction_length before the last
NoBoundaryExample ==
  \A e \in Examples :
     /\ e.actual.timestamp - cleaned_data[1].timestamp >= flags.history_length * Day
     /\ cleaned_data[Len(cleaned_data)].timestamp - e.actual.timestamp
          >= flags.prediction_length * Day

\* the measurements are no denser than the resolution: the timestamps of any two
\* are at least 1 / scraper_resolution of a day apart
Sparse ==
  \A a, b \in 1..Len(cleaned_data) :
     a # b =>
       flags.scraper_resolution * Abs(cleaned_data[a].timestamp - cleaned_data[b].timestamp)
         >= Day

\* C5, as claimed: with positive window lengths and resolution, a measurement less
\* than history_length after the first timestamp or less than prediction_length
\* before the last is never retained, whatever the density of the series.
C5_BoundaryNeverRetained == (WindowsPositive /\ ~FlagsInvalid) => NoBoundaryExample

\* C5, amended: with positive window lengths and resolution, in a series whose
\* samples are at least 1 / scraper_resolution of a day apart, a measurement less
\* than history_length after the first timestamp or less than prediction_length
\* before the last is never retained.
C5_BoundaryNotRetainedWhenSparse == (WindowsPositive /\ Sparse) => NoBoundaryExample

C5_Witness ==
  /\ pc = "done"
  /\ WindowsPositive
  /\ Sparse
  /\ Examples # {}
  /\ \E k \in 1..Len(cleaned_data) :
       /\ cleaned_data[k].timestamp - cleaned_data[1].timestamp
            < flags.history_length * Day
       /\ ExampleOf(k) \notin Examples

\* C6: with train_split outside (0,1) or a negative window length the run aborts at
\* startup: no sample is calibrated, no file written, no example collected or split.
C6_BadFlagsAbortAtStartup ==
  FlagsInvalid =>
    /\ cleaned_data = <<>>
    /\ files = {}
    /\ t = <<>>
    /\ pc \notin {"split", "write_json", "done"}

\* C7: whatever the order of the raw samples, the examples returned by the collector
\* are in non-decreasing order of actual.timestamp, and examples with equal anchor
\* timestamps are in the order their raw samples had in the input.
C7_CollectedInStableTimeOrder ==
  pc \in {"collect", "shuffle"} =>
    /\ Len(kept) = Len(training_data)
    /\ \A a \in 1..Len(training_data) :
         training_data[a].actual = Measurement(data[order[kept[a]]])
    /\ \A a, b \in 1..Len(training_data) :
         a < b =>
           /\ training_data[a].actual.timestamp <= training_data[b].actual.timestamp
           /\ training_data[a].actual.timestamp = training_data[b].actual.timestamp
                => order[kept[a]] < order[kept[b]]

C7_Witness ==
  /\ pc = "shuffle"
  /\ \E a, b \in 1..Len(data) : a < b /\ data[a][1] > data[b][1]
  /\ \E a, b \in 1..Len(training_data) :
       /\ a < b
       /\ training_data[a].actual.timestamp = training_data[b].actual.timestamp
       /\ training_data[a].actual # training_data[b].actual

IsScenarioA ==
  /\ Len(cleaned_data) = 10
  /\ \A k \in 1..10 : cleaned_data[k].timestamp = cleaned_data[1].timestamp + (k - 1) * Day
  /\ flags.history_length = 2
  /\ flags.prediction_length = 2
  /\ flags.scraper_resolution = 1

\* C8: for ten measurements one day apart, with history_length 2, prediction_length 2
\* and resolution 1, the collector returns exactly 6 examples, anchored at the
\* series indices 2..7 (counted from 0), each with 2 history and 2 future entries.
C8_ScenarioAYieldsSixExamples ==
  (IsScenarioA /\ pc = "shuffle") =>
    /\ Len(training_data) = 6
    /\ \A j \in 1..Len(training_data) :
         /\ training_data[j].actual = cleaned_data[j + 2]
         /\ Len(training_data[j].history) = 2
         /\ Len(training_data[j].future) = 2

C8_Witness ==
  /\ IsScenarioA
  /\ pc = "shuffle"
  /\ data[1][1] > data[2][1]
  /\ Len(training_data) > 0

Calibrated == pc \notin {"start", "input_error", "calibrate"}

\* the measurement made of every raw sample (t, 50, 80, 1000) has humidity 54,
\* pressure 1000 and a temperature that is c hundredths of a degree, to the hundredth
ScenarioB(c) ==
  \A k \in 1..Len(cleaned_data) :
     (data[order[k]][2] = 50 /\ data[order[k]][3] = 80 /\ data[order[k]][4] = 1000) =>
        /\ cleaned_data[k].humidity = 54
        /\ 2 * Abs(100 * cleaned_data[k].temperature - c * CelsiusDen) <= CelsiusDen
        /\ cleaned_data[k].pressure = 1000

\* C9, as claimed: the raw sample (t, 50, 80, 1000) is calibrated to humidity 54.0,
\* temperature about 17.78 C and pressure 1000.
C9_ScenarioBGives17_78 == Calibrated => ScenarioB(1778)

\* C9, amended: the raw sample (t, 50, 80, 1000) is calibrated to humidity 54.0,
\* temperature about 22.22 C ((80 - 32 - 8) / 1.8, the formula applied once) and
\* pressure 1000.
C9_ScenarioBGives22_22 == Calibrated => ScenarioB(2222)

C9_Witness ==
  /\ pc = "done"
  /\ \E k \in 1..Len(cleaned_data) :
       /\ data[order[k]] = <<3 * Day, 50, 80, 1000>>
       /\ cleaned_data[k].humidity = 54
       /\ k > 1

----------------------------------------------------------------------------
(* Properties of purpleair_scraper.py, checked under ScraperSpec *)

RECURSIVE ConcatData(_)
ConcatData(rs) ==
  IF rs = <<>> THEN <<>>
  ELSE ConcatData(SubSeq(rs, 1, Len(rs) - 1)) \o rs[Len(rs)].data

\* the requests made so far are the successive fixed-size windows from
\* start_timestamp, none of them twice
RequestsAreSuccessiveWindows ==
  \A k \in 1..Len(requests) : requests[k] = start_timestamp + (k - 1) * PageWeeks

\* every reply is a JSON object with a data array and an end_timestamp
RepliesComplete ==
  \A k \in 1..Len(replies) : {"data", "end_timestamp"} \subseteq replies[k].keys

\* the feed was written and its data is the concatenation, in window order, of the
\* data of every window from start_timestamp up to end_timestamp
FeedIsConcatenation ==
  /\ outfile # <<>>
  /\ RequestsAreSuccessiveWindows
  /\ Len(replies) = Len(requests)
  /\ requests # <<>> =>
       /\ requests[Len(requests)] < end_timestamp
       /\ requests[Len(requests)] + PageWeeks >= end_timestamp
       /\ "data" \in outfile[1].keys
       /\ outfile[1].data = ConcatData(replies)

\* C10: after a failed request the scraper does not abort but has the
\* same window up for the next request, and once the loop has ended the written feed
\* is the concatenation of the data of every window.  (Stated for replies that are
\* JSON objects with a data array and an end_timestamp.)
C10_FailedRequestIsRetried ==
  RepliesComplete =>
    /\ response = "failed" =>
         /\ s_pc = "loop"
         /\ current_timestamp = requests[Len(requests)]
    /\ (s_pc \in {"done", "HTTPError"} /\ requests # <<>>) => FeedIsConcatenation

====
